---------------------------- MODULE Spec2Model ----------------------------
(***************************************************************************)
(* Model of src/main.go (SRodi/hclwrite-example): a Go program that emits  *)
(* terraform/locals.tf and terraform/main.tf with hclwrite.                *)
(*                                                                         *)
(* Text is modelled at lexeme granularity: a file's content and the bytes  *)
(* of a document are sequences of tokens (TLA+ strings); the white space   *)
(* hclwrite's formatter puts between tokens is left out, line ends are the *)
(* token "\n".  A Go string that goes through hclwrite's escaping is a     *)
(* sequence of pieces: a run of ordinary characters, or one character the  *)
(* escaping or the normalization of strings looks at (quote, backslash,    *)
(* newline, $, %, {, e, U+0301, U+00E9).                                   *)
(***************************************************************************)
EXTENDS Integers, Sequences, FiniteSets, TLC

\* ------------------------------------------------------------- bounds
\* rand.Int() returns a value of 0..MaxRand.
MaxRand == 1
\* Length, in tokens, of the content a file may hold before the run.
OldLen == 200
\* A failed Write has written a prefix of 0..MaxPartial tokens.
MaxPartial == 1

\* ------------------------------------------------- program constants
NumSecrets == 5
NumFields == 5
tfDir == "terraform"
tfLocalsFileName == "locals.tf"
tfMainFileName == "main.tf"
FileNames == {tfLocalsFileName, tfMainFileName}

\* ------------------------------------------------------------ strings
\* A file: absent, or present with its content.
NoFile == [exists |-> FALSE, data |-> <<>>]
File(d) == [exists |-> TRUE, data |-> d]
\* An environment variable: unset, or set to a string.
Unset == [set |-> FALSE, val |-> <<>>]
Set(v) == [set |-> TRUE, val |-> v]
NL == "\n"
Junk(n) == [i \in 1..n |-> "#old"]

RECURSIVE Digits(_)
\* fmt.Sprint of a non-negative int, one decimal digit at a time.
Digits(n) == IF n < 10 THEN <<n>> ELSE Append(Digits(n \div 10), n % 10)

\* fmt.Sprint of an int: its decimal digits as one string.
Sprint(n) == ToString(n)
\* fmt.Sprint of a string: the string.
SprintString(s) == s

RECURSIVE SeqLess(_, _)
\* Lexicographic order on digit sequences: the byte order of decimal strings.
SeqLess(a, b) ==
    IF a = <<>> THEN b # <<>>
    ELSE IF b = <<>> THEN FALSE
    ELSE IF a[1] # b[1] THEN a[1] < b[1]
    ELSE SeqLess(Tail(a), Tail(b))

RECURSIVE SortNums(_)
\* The numbers of S in the byte order of their decimal strings.
SortNums(S) ==
    IF S = {} THEN <<>>
    ELSE LET m == CHOOSE x \in S : \A y \in S \ {x} : SeqLess(Digits(x), Digits(y))
         IN <<m>> \o SortNums(S \ {m})

\* Mutant of SecretKey: the secrets are numbered from 1.
SecretKeyFromOne(i) == "secret-" \o ToString(i + 1)

FieldKey(n) == "field-" \o SprintString(Sprint(n))
CrnString(n) == <<"crn:v1:bluemix:" \o Sprint(n)>>
SecretKey(i) == "secret-" \o Sprint(i)

\* ---------------------------------------------------------------- cty
EmptyMap == <<>>
MapPut(m, k, v) == [x \in DOMAIN m \cup {k} |-> IF x = k THEN v ELSE m[x]]
\* Two pieces that are no ordinary text: U+0301 (combining acute accent) and
\* U+00E9, the one character "e" followed by U+0301 composes to.
CombiningAcute == "<U+0301>"
EAcute == "<U+00E9>"

RECURSIVE NormalizeString(_)
\* cty.NormalizeString: the Unicode NFC form of a string.
NormalizeString(s) ==
    IF s = <<>> THEN <<>>
    ELSE IF Len(s) >= 2 /\ s[1] = "e" /\ s[2] = CombiningAcute
    THEN <<EAcute>> \o NormalizeString(SubSeq(s, 3, Len(s)))
    ELSE <<Head(s)>> \o NormalizeString(Tail(s))

\* cty.StringVal: strings are NFC-normalized when they become cty values.
StringVal(s) == [t |-> "string", s |-> NormalizeString(s), attrs |-> <<>>]
ObjectVal(m) == [t |-> "object", s |-> <<>>, attrs |-> m]

\* Every attribute name this program puts in an object, in the byte order
\* cty's ElementIterator visits them: "field-<n>" < "fields" < "secret-<i>".
KeyUniverse ==
    LET fs == SortNums(0..MaxRand)
        ss == SortNums(0..(NumSecrets - 1))
    IN [i \in 1..Len(fs) |-> FieldKey(fs[i])] \o <<"fields">>
       \o [i \in 1..Len(ss) |-> SecretKey(ss[i])]

InDomain(m, k) == k \in DOMAIN m
SortedKeys(m) == SelectSeq(KeyUniverse, LAMBDA k : InDomain(m, k))

\* ----------------------------------------------------------- hclwrite
RECURSIVE escapeQuotedStringLit(_)
\* hclwrite's escaping of the content of a quoted string literal.
escapeQuotedStringLit(s) ==
    IF s = <<>> THEN <<>>
    ELSE LET c == Head(s)
             rest == Tail(s)
             out == CASE c = "\"" -> <<"\\", "\"">>
                      [] c = "\\" -> <<"\\", "\\">>
                      [] c = "\n" -> <<"\\", "n">>
                      [] c \in {"$", "%"} ->
                            IF rest # <<>> /\ Head(rest) = "{" THEN <<c, c>> ELSE <<c>>
                      [] OTHER -> <<c>>
         IN out \o escapeQuotedStringLit(rest)

RECURSIVE TokensForValue(_)
RECURSIVE ObjectTokens(_, _)
\* The "key = value \n" lines of an object, keys in iterator order.
ObjectTokens(m, keys) ==
    IF keys = <<>> THEN <<>>
    ELSE <<Head(keys), "=">> \o TokensForValue(m[Head(keys)]) \o <<NL>>
         \o ObjectTokens(m, Tail(keys))

\* hclwrite.TokensForValue for the two kinds of value the program builds.
TokensForValue(v) ==
    IF v.t = "string"
    THEN <<"\"">> \o escapeQuotedStringLit(v.s) \o <<"\"">>
    ELSE <<"{">> \o (IF DOMAIN v.attrs = {} THEN <<>> ELSE <<NL>>)
         \o ObjectTokens(v.attrs, SortedKeys(v.attrs)) \o <<"}">>

\* hcl.Traversal{TraverseRoot{root}, TraverseAttr{attr}} as tokens.
TokensForTraversal(root, attr) == <<root, ".", attr>>

Attr(name, expr) == [kind |-> "attr", name |-> name, labels |-> <<>>, expr |-> expr, body |-> <<>>]
Block(type, labels, body) == [kind |-> "block", name |-> type, labels |-> labels, expr |-> <<>>, body |-> body]

HasAttr(body, name) == \E i \in 1..Len(body) : body[i].kind = "attr" /\ body[i].name = name

\* Body.SetAttributeRaw: replace the attribute of that name, or append it.
SetAttribute(body, name, expr) ==
    IF HasAttr(body, name)
    THEN [i \in 1..Len(body) |->
            IF body[i].kind = "attr" /\ body[i].name = name THEN Attr(name, expr) ELSE body[i]]
    ELSE Append(body, Attr(name, expr))

SetAttributeValue(body, name, val) == SetAttribute(body, name, TokensForValue(val))
SetAttributeTraversal(body, name, root, attr) == SetAttribute(body, name, TokensForTraversal(root, attr))
AppendNewBlock(body, type, labels, inner) == Append(body, Block(type, labels, inner))

RECURSIVE LabelTokens(_)
\* Block labels are written as quoted string literals.
LabelTokens(ls) ==
    IF ls = <<>> THEN <<>>
    ELSE TokensForValue(StringVal(<<Head(ls)>>)) \o LabelTokens(Tail(ls))

RECURSIVE BodyTokens(_)
\* The tokens of a body: its attributes and blocks in order.
BodyTokens(body) ==
    IF body = <<>> THEN <<>>
    ELSE LET it == Head(body)
         IN (IF it.kind = "attr"
             THEN <<it.name, "=">> \o it.expr \o <<NL>>
             ELSE <<it.name>> \o LabelTokens(it.labels) \o <<"{", NL>>
                  \o BodyTokens(it.body) \o <<"}", NL>>)
            \o BodyTokens(Tail(body))

\* File.Bytes().
Bytes(file) == BodyTokens(file)

\* ----------------------------------------------------------------- os
\* Mutant of Getenv: a placeholder for a variable that is not set.
GetenvPlaceholder(env, name) == IF env[name].set THEN env[name].val ELSE <<"<unset>">>

\* os.Getenv: the value, or "" when the variable is not set.
Getenv(env, name) == IF env[name].set THEN env[name].val ELSE <<>>

IsNotExist(e) == e = "ENOENT"

\* What os.Stat can answer for a path in state d.
StatResults(d) == IF d = "absent" THEN {"ENOENT", "EACCES"} ELSE {"nil", "EACCES"}

\* What os.Mkdir can answer, and the state of the path after it.
MkdirResults(d) == IF d = "absent" THEN {"nil", "EACCES"} ELSE {"EEXIST"}
AfterMkdir(d, e) == IF e = "nil" THEN "dir" ELSE d

\* What os.Create can answer for a file of a path in state d.
CreateResults(d) ==
    IF d = "dir" THEN {"nil", "EACCES"} ELSE IF d = "file" THEN {"ENOTDIR"} ELSE {"ENOENT"}

\* Mutant of CreateContent: os.OpenFile without O_TRUNC.
CreateContentNoTrunc(old) == File(old.data)

\* os.Create opens with O_RDWR|O_CREATE|O_TRUNC: the content is emptied.
CreateContent(old) == File(<<>>)

\* A Write at offset 0 of a file holding old: the bytes replace what they
\* cover and whatever lay beyond them stays.
WriteAt0(old, bytes) ==
    File(bytes \o (IF Len(old.data) > Len(bytes)
                   THEN SubSeq(old.data, Len(bytes) + 1, Len(old.data)) ELSE <<>>))

Prefix(s, k) == SubSeq(s, 1, IF k < Len(s) THEN k ELSE Len(s))

Call(c, r) == [call |-> c, res |-> r]

\* Mutant of MainFlow: main calls createTerraformMain first.
MainFlowSwapped == [entry |-> "L66", afterLocals |-> "L110", afterMain |-> "L36"]

\* func main: the emitters in the order main calls them.
MainFlow == [entry |-> "L36", afterLocals |-> "L66", afterMain |-> "L110"]

\* -------------------------------------------------------------- state
VARIABLES
    pc,           \* the statement main.go is about to execute
    status,       \* "running", "exit0", "panic"
    environ,      \* the process environment: CLUSTER_ID, NAMESPACE
    dirState,     \* what the path terraform is: "absent", "dir", "file"
    files,        \* terraform/locals.tf and terraform/main.tf
    tfFile,       \* the name of the file the emitter holds open
    hclFile,      \* the root body of the document under construction
    secretsMap, fieldsMap, crnMap, indexSecret, indexField,
    sys,          \* the system calls of the latest statement, with results
    prior,        \* history: the files as the run found them
    log,          \* history: the steps the run has completed, in order
    written,      \* history: tokens the run has written to each file
    complete      \* history: the file holds the whole document of this run

vars == <<pc, status, environ, dirState, files, tfFile, hclFile,
          secretsMap, fieldsMap, crnMap, indexSecret, indexField,
          sys, prior, log, written, complete>>

loopVars == <<secretsMap, fieldsMap, crnMap, indexSecret, indexField>>
histVars == <<prior, log, written, complete>>

Nil == <<>>

\* The files a run may find: none, or both left by an earlier run.
PriorStates == {[f \in FileNames |-> NoFile], [f \in FileNames |-> File(Junk(OldLen))]}

InitCommon ==
    /\ status = "running"
    /\ tfFile = Nil
    /\ hclFile = Nil
    /\ secretsMap = EmptyMap /\ fieldsMap = EmptyMap /\ crnMap = EmptyMap
    /\ indexSecret = 0 /\ indexField = 0
    /\ prior \in PriorStates
    /\ complete = [f \in FileNames |-> FALSE]

\* The process starts.
Init ==
    /\ InitCommon
    /\ pc = MainFlow.entry
    /\ environ \in {[CLUSTER_ID |-> Unset, NAMESPACE |-> Unset],
                    [CLUSTER_ID |-> Set(<<"prod-1234">>), NAMESPACE |-> Set(<<"ns-a">>)]}
    /\ dirState \in {"absent", "dir", "file"}
    /\ dirState # "dir" => prior = [f \in FileNames |-> NoFile]
    /\ files = prior
    /\ sys = <<>>
    /\ log = <<>>
    /\ written = [f \in FileNames |-> 0]

\* ------------------------------------------------------------ actions
\* Mutant of makeDir: Mkdir without the Stat that guards it.
makeDirNoStat(from, to) ==
    /\ pc = from /\ status = "running"
    /\ \E m \in MkdirResults(dirState) :
        /\ dirState' = AfterMkdir(dirState, m)
        /\ sys' = <<Call("mkdir", m)>>
    /\ pc' = to
    /\ log' = Append(log, "makeDir")
    /\ UNCHANGED <<status, environ, files, tfFile, hclFile, prior, written, complete>>
    /\ UNCHANGED loopVars

\* Mutant of Write: a failed Write panics, after the bytes it wrote.
WritePanics(from, to) ==
    /\ pc = from /\ status = "running"
    /\ LET b == Bytes(hclFile)
       IN \/ /\ files' = [files EXCEPT ![tfFile] = WriteAt0(@, b)]
             /\ written' = [written EXCEPT ![tfFile] = Len(b)]
             /\ complete' = [complete EXCEPT ![tfFile] = (WriteAt0(files[tfFile], b) = File(b))]
             /\ sys' = <<Call("write", "nil")>>
             /\ log' = Append(log, "write:" \o tfFile)
             /\ tfFile' = Nil
             /\ hclFile' = Nil
             /\ secretsMap' = EmptyMap /\ fieldsMap' = EmptyMap /\ crnMap' = EmptyMap
             /\ indexSecret' = 0 /\ indexField' = 0
             /\ pc' = to
             /\ status' = status
          \/ \E k \in 0..MaxPartial :
             /\ k < Len(b)
             /\ files' = [files EXCEPT ![tfFile] = WriteAt0(@, Prefix(b, k))]
             /\ written' = [written EXCEPT ![tfFile] = k]
             /\ sys' = <<Call("write", "ENOSPC")>>
             /\ status' = "panic"
             /\ UNCHANGED <<pc, complete, log, tfFile, hclFile>>
             /\ UNCHANGED loopVars
    /\ UNCHANGED <<environ, dirState, prior>>

\* hclwrite.NewEmptyFile()
NewEmptyFile(from, to) ==
    /\ pc = from /\ status = "running"
    /\ hclFile' = <<>>
    /\ pc' = to
    /\ sys' = <<>>
    /\ UNCHANGED <<status, environ, dirState, files, tfFile>>
    /\ UNCHANGED loopVars /\ UNCHANGED histVars

\* makeDir(tfDir): Stat, then Mkdir when the path does not exist (its
\* error is dropped), panic on any other Stat error.
makeDir(from, to) ==
    /\ pc = from /\ status = "running"
    /\ \E e \in StatResults(dirState) :
        IF IsNotExist(e)
        THEN \E m \in MkdirResults(dirState) :
                /\ dirState' = AfterMkdir(dirState, m)
                /\ sys' = <<Call("stat", e), Call("mkdir", m)>>
                /\ pc' = to
                /\ status' = status
                /\ log' = Append(log, "makeDir")
        ELSE IF e # "nil"
        THEN /\ status' = "panic"
             /\ sys' = <<Call("stat", e)>>
             /\ UNCHANGED <<pc, dirState, log>>
        ELSE /\ pc' = to
             /\ sys' = <<Call("stat", e)>>
             /\ log' = Append(log, "makeDir")
             /\ UNCHANGED <<status, dirState>>
    /\ UNCHANGED <<environ, files, tfFile, hclFile, prior, written, complete>>
    /\ UNCHANGED loopVars

\* createFile(name): os.Create, panic on its error.
createFile(from, to, name) ==
    /\ pc = from /\ status = "running"
    /\ \E e \in CreateResults(dirState) :
        /\ sys' = <<Call("create", e)>>
        /\ IF e # "nil"
           THEN /\ status' = "panic"
                /\ UNCHANGED <<pc, files, tfFile, complete, log>>
           ELSE /\ files' = [files EXCEPT ![name] = CreateContent(@)]
                /\ tfFile' = name
                /\ complete' = [complete EXCEPT ![name] = FALSE]
                /\ log' = Append(log, "create:" \o name)
                /\ pc' = to
                /\ status' = status
    /\ UNCHANGED <<environ, dirState, hclFile, prior, written>>
    /\ UNCHANGED loopVars

\* tfFile.Write(hclFile.Bytes()), the error dropped; then the emitter
\* returns and its locals are gone.
Write(from, to) ==
    /\ pc = from /\ status = "running"
    /\ LET b == Bytes(hclFile)
       IN \/ /\ files' = [files EXCEPT ![tfFile] = WriteAt0(@, b)]
             /\ written' = [written EXCEPT ![tfFile] = Len(b)]
             /\ complete' = [complete EXCEPT ![tfFile] = (WriteAt0(files[tfFile], b) = File(b))]
             /\ sys' = <<Call("write", "nil")>>
             /\ log' = Append(log, "write:" \o tfFile)
          \/ \E k \in 0..MaxPartial :
             /\ k < Len(b)
             /\ files' = [files EXCEPT ![tfFile] = WriteAt0(@, Prefix(b, k))]
             /\ written' = [written EXCEPT ![tfFile] = k]
             /\ sys' = <<Call("write", "ENOSPC")>>
             /\ log' = Append(log, "write-failed:" \o tfFile)
             /\ UNCHANGED complete
    /\ tfFile' = Nil
    /\ hclFile' = Nil
    /\ secretsMap' = EmptyMap /\ fieldsMap' = EmptyMap /\ crnMap' = EmptyMap
    /\ indexSecret' = 0 /\ indexField' = 0
    /\ pc' = to
    /\ UNCHANGED <<status, environ, dirState, prior>>

\* createTerraformLocals, lines 40-47.
LocalsBlock ==
    /\ pc = "L40" /\ status = "running"
    /\ hclFile' = AppendNewBlock(hclFile, "locals", <<>>, <<>>)
    /\ secretsMap' = EmptyMap
    /\ indexSecret' = 0
    /\ pc' = "L48"
    /\ sys' = <<>>
    /\ UNCHANGED <<status, environ, dirState, files, tfFile, fieldsMap, crnMap, indexField>>
    /\ UNCHANGED histVars

\* for indexSecret < 5, lines 48-51.
OuterIter ==
    /\ pc = "L48" /\ status = "running"
    /\ indexSecret < NumSecrets
    /\ indexField' = 0
    /\ fieldsMap' = EmptyMap
    /\ crnMap' = EmptyMap
    /\ pc' = "L52"
    /\ sys' = <<>>
    /\ UNCHANGED <<status, environ, dirState, files, tfFile, hclFile, secretsMap, indexSecret>>
    /\ UNCHANGED histVars

\* for indexField < 5, lines 52-55: two draws of rand.Int().
InnerIter ==
    /\ pc = "L52" /\ status = "running"
    /\ indexField < NumFields
    /\ \E r1 \in 0..MaxRand, r2 \in 0..MaxRand :
        crnMap' = MapPut(crnMap, FieldKey(r1), StringVal(CrnString(r2)))
    /\ indexField' = indexField + 1
    /\ pc' = "L52"
    /\ sys' = <<>>
    /\ UNCHANGED <<status, environ, dirState, files, tfFile, hclFile, secretsMap, fieldsMap, indexSecret>>
    /\ UNCHANGED histVars

\* Lines 56-58, once the inner loop is over.
InnerExit ==
    /\ pc = "L52" /\ status = "running"
    /\ ~(indexField < NumFields)
    /\ LET fm == MapPut(fieldsMap, "fields", ObjectVal(crnMap))
       IN /\ fieldsMap' = fm
          /\ secretsMap' = MapPut(secretsMap, SecretKey(indexSecret), ObjectVal(fm))
    /\ indexSecret' = indexSecret + 1
    /\ pc' = "L48"
    /\ sys' = <<>>
    /\ UNCHANGED <<status, environ, dirState, files, tfFile, hclFile, crnMap, indexField>>
    /\ UNCHANGED histVars

\* Line 61, once the outer loop is over.
OuterExit ==
    /\ pc = "L48" /\ status = "running"
    /\ ~(indexSecret < NumSecrets)
    /\ hclFile' = [hclFile EXCEPT ![1].body =
                      SetAttributeValue(@, "secrets", ObjectVal(secretsMap))]
    /\ log' = Append(log, "build:" \o tfFile)
    /\ pc' = "L62"
    /\ sys' = <<>>
    /\ UNCHANGED <<status, environ, dirState, files, tfFile, prior, written, complete>>
    /\ UNCHANGED loopVars

\* Mutant of MainDocument: the index by each.key is left out of the
\* dynamic block's for_each.
MainDocumentNoIndex(env) ==
    LET content == SetAttributeTraversal(
                     SetAttributeTraversal(<<>>, "field_name", "fields", "key"),
                     "crn", "fields", "value")
        dynamic == AppendNewBlock(
                     SetAttributeTraversal(<<>>, "for_each", "local.secrets", "fields"),
                     "content", <<>>, content)
        r1 == SetAttributeTraversal(<<>>, "for_each", "local", "secrets")
        r2 == SetAttributeValue(r1, "cluster", StringVal(Getenv(env, "CLUSTER_ID")))
        r3 == SetAttributeTraversal(r2, "secret_name", "each", "key")
        r4 == SetAttributeValue(r3, "secret_namespace", StringVal(Getenv(env, "NAMESPACE")))
        resource == AppendNewBlock(r4, "dynamic", <<"fields">>, dynamic)
    IN AppendNewBlock(<<>>, "resource",
                      <<"ibm_container_ingress_secret_opaque", "ingress-secret">>, resource)

\* The document createTerraformMain builds, lines 70-102.
MainDocument(env) ==
    LET content == SetAttributeTraversal(
                     SetAttributeTraversal(<<>>, "field_name", "fields", "key"),
                     "crn", "fields", "value")
        dynamic == AppendNewBlock(
                     SetAttributeTraversal(<<>>, "for_each", "local.secrets[each.key]", "fields"),
                     "content", <<>>, content)
        r1 == SetAttributeTraversal(<<>>, "for_each", "local", "secrets")
        r2 == SetAttributeValue(r1, "cluster", StringVal(Getenv(env, "CLUSTER_ID")))
        r3 == SetAttributeTraversal(r2, "secret_name", "each", "key")
        r4 == SetAttributeValue(r3, "secret_namespace", StringVal(Getenv(env, "NAMESPACE")))
        resource == AppendNewBlock(r4, "dynamic", <<"fields">>, dynamic)
    IN AppendNewBlock(<<>>, "resource",
                      <<"ibm_container_ingress_secret_opaque", "ingress-secret">>, resource)

BuildMain ==
    /\ pc = "L70" /\ status = "running"
    /\ hclFile' = hclFile \o MainDocument(environ)
    /\ log' = Append(log, "build:" \o tfFile)
    /\ pc' = "L104"
    /\ sys' = <<>>
    /\ UNCHANGED <<status, environ, dirState, files, tfFile, prior, written, complete>>
    /\ UNCHANGED loopVars

\* main returns: the process exits with code 0.
Exit ==
    /\ pc = "L110" /\ status = "running"
    /\ pc' = "done"
    /\ status' = "exit0"
    /\ log' = Append(log, "exit")
    /\ sys' = <<>>
    /\ UNCHANGED <<environ, dirState, files, tfFile, hclFile, prior, written, complete>>
    /\ UNCHANGED loopVars

createTerraformLocals ==
    \/ NewEmptyFile("L36", "L37")
    \/ makeDir("L37", "L38")
    \/ createFile("L38", "L40", tfLocalsFileName)
    \/ LocalsBlock
    \/ OuterIter
    \/ InnerIter
    \/ InnerExit
    \/ OuterExit
    \/ Write("L62", MainFlow.afterLocals)

createTerraformMain ==
    \/ NewEmptyFile("L66", "L67")
    \/ makeDir("L67", "L68")
    \/ createFile("L68", "L70", tfMainFileName)
    \/ BuildMain
    \/ Write("L104", MainFlow.afterMain)

Next == createTerraformLocals \/ createTerraformMain \/ Exit

Spec == Init /\ [][Next]_vars

\* ------------------------------------------- createTerraformMain alone
\* The values CLUSTER_ID and NAMESPACE are tried with.
EnvValues == {Unset, Set(<<>>), Set(<<"prod-1234">>), Set(<<"ns-a">>),
              Set(<<"a", "\"", "\\", "$", "{", "\n", "%", "{", "$">>),
              Set(<<"caf", "e", CombiningAcute>>)}

\* main is about to call createTerraformMain: createTerraformLocals has
\* returned, its Write having failed before any byte was written.
InitMain ==
    /\ InitCommon
    /\ pc = MainFlow.afterLocals
    /\ environ \in [{"CLUSTER_ID", "NAMESPACE"} -> EnvValues]
    /\ dirState = "dir"
    /\ files = [prior EXCEPT ![tfLocalsFileName] = File(<<>>)]
    /\ sys = <<Call("write", "ENOSPC")>>
    /\ log = <<"makeDir", "create:" \o tfLocalsFileName, "build:" \o tfLocalsFileName,
               "write-failed:" \o tfLocalsFileName>>
    /\ written = [f \in FileNames |-> 0]

NextMain == createTerraformMain \/ Exit

SpecMain == InitMain /\ [][NextMain]_vars

\* ------------------------------------------------------------- claims
RECURSIVE Concat(_)
\* The text of a token sequence.
Concat(toks) == IF toks = <<>> THEN "" ELSE Head(toks) \o Concat(Tail(toks))

IsPrefix(a, b) == Len(a) <= Len(b) /\ a = SubSeq(b, 1, Len(a))

InLog(e) == \E i \in 1..Len(log) : log[i] = e
FaultFree == ~InLog("write-failed:" \o tfLocalsFileName) /\ ~InLog("write-failed:" \o tfMainFileName)
             /\ status # "panic"
HasCall(c) == \E i \in 1..Len(sys) : sys[i].call = c
Failed(c) == \E i \in 1..Len(sys) : sys[i].call = c /\ sys[i].res # "nil"

LocalsPcs == {"L36", "L37", "L38", "L40", "L48", "L52", "L62"}
MainPcs == {"L66", "L67", "L68", "L70", "L104"}

FieldsOf(entry) == entry.attrs["fields"].attrs

\* C1: in the Secrets Mapping bound to `secrets` there are exactly 5 entries,
\* secret-0 .. secret-4, and each entry's Fields Map has exactly 5 pairs,
\* whatever rand.Int() returned.
C1_FiveByFive ==
    pc = "L62" =>
        /\ DOMAIN secretsMap = {"secret-0", "secret-1", "secret-2", "secret-3", "secret-4"}
        /\ \A k \in DOMAIN secretsMap : Cardinality(DOMAIN FieldsOf(secretsMap[k])) = 5

\* C2: a Stat error other than "not found", a failed Mkdir and a failed
\* Create each abort the process in the statement they occur in.
C2_FaultAborts ==
    ((Failed("stat") /\ ~(sys[1].res = "ENOENT")) \/ Failed("mkdir") \/ Failed("create"))
        => status = "panic"

\* C3 as claimed: when a fault aborts the process, the run has written no
\* document content to either file.
C3_NoOutputAtAbort ==
    status = "panic" => \A f \in FileNames : written[f] = 0

\* C3 amended: when a fault aborts the process, the run has written nothing
\* to terraform/main.tf, and nothing to terraform/locals.tf when the fault
\* arose in createTerraformLocals.
C3_NoOutputOfFaultingEmitter ==
    status = "panic" =>
        /\ pc \in LocalsPcs \cup MainPcs
        /\ written[tfMainFileName] = 0
        /\ pc \in LocalsPcs => written[tfLocalsFileName] = 0

\* C3 witness: createTerraformMain aborted with terraform/locals.tf written.
C3_Witness ==
    /\ status = "panic" /\ pc = "L68"
    /\ complete[tfLocalsFileName] /\ written[tfLocalsFileName] > 0

\* C4: the process exits with code 0 only with both files holding their
\* complete document, and never after a failed Write.
C4_ExitZeroIffComplete ==
    status = "exit0" =>
        /\ \A f \in FileNames : complete[f]
        /\ ~InLog("write-failed:" \o tfLocalsFileName)
        /\ ~InLog("write-failed:" \o tfMainFileName)

\* C5: once a Write has succeeded the file holds exactly the bytes the run
\* serialized for it, whatever it held before, and so do both files after a
\* run in which nothing failed.
C5_Overwritten ==
    /\ \A f \in FileNames :
          InLog("write:" \o f) =>
              (files[f].exists /\ complete[f] /\ Len(files[f].data) = written[f])
    /\ (status = "exit0" /\ FaultFree) => \A f \in FileNames : complete[f]

\* C5 witness: a run without faults over files that held more than it wrote.
C5_Witness ==
    /\ status = "exit0" /\ FaultFree
    /\ \A f \in FileNames : complete[f] /\ Len(prior[f].data) > Len(files[f].data)

RECURSIVE ReadLit(_)
\* How HCL reads the content of a quoted literal, up to its closing quote:
\* \" \\ \n are escapes, $${ and %%{ stand for ${ and %{, a bare ${ or %{
\* opens a template and is no literal text.
ReadLit(toks) ==
    IF toks = <<>> THEN [ok |-> FALSE, val |-> <<>>]
    ELSE LET c == Head(toks)
             rest == Tail(toks)
         IN IF c = "\"" THEN [ok |-> rest = <<>>, val |-> <<>>]
            ELSE IF c = "\\"
            THEN IF rest = <<>> \/ ~(Head(rest) \in {"\"", "\\", "n"})
                 THEN [ok |-> FALSE, val |-> <<>>]
                 ELSE LET r == ReadLit(Tail(rest))
                      IN [ok |-> r.ok,
                          val |-> <<IF Head(rest) = "n" THEN "\n" ELSE Head(rest)>> \o r.val]
            ELSE IF c \in {"$", "%"} /\ rest # <<>> /\ Head(rest) = "{"
            THEN [ok |-> FALSE, val |-> <<>>]
            ELSE IF c \in {"$", "%"} /\ Len(rest) >= 2 /\ rest[1] = c /\ rest[2] = "{"
            THEN LET r == ReadLit(Tail(rest)) IN [ok |-> r.ok, val |-> <<c>> \o r.val]
            ELSE LET r == ReadLit(rest) IN [ok |-> r.ok, val |-> <<c>> \o r.val]

\* The string a quoted-literal expression denotes.
Denotes(expr) ==
    IF expr = <<>> \/ Head(expr) # "\"" THEN [ok |-> FALSE, val |-> <<>>]
    ELSE ReadLit(Tail(expr))

AttrsNamed(body, name) == {i \in 1..Len(body) : body[i].kind = "attr" /\ body[i].name = name}
ValueOf(var) == IF environ[var].set THEN environ[var].val ELSE <<>>
IsNFC(v) == \A i \in 1..Len(v) : v[i] # CombiningAcute
OneLiteral(body, name) ==
    /\ Cardinality(AttrsNamed(body, name)) = 1
    /\ \A i \in AttrsNamed(body, name) : Denotes(body[i].expr).ok
Denoted(body, name) == Denotes(body[CHOOSE i \in AttrsNamed(body, name) : TRUE].expr).val

LiteralIsNFC(body, name, var) ==
    /\ OneLiteral(body, name)
    /\ IsNFC(Denoted(body, name))
    /\ IsNFC(ValueOf(var)) => Denoted(body, name) = ValueOf(var)
    /\ ~environ[var].set => Denoted(body, name) = <<>>
    /\ Len(ValueOf(var)) - Len(Denoted(body, name))
          = Cardinality({i \in 1..Len(ValueOf(var)) : ValueOf(var)[i] = CombiningAcute})

MakeDirStep == pc \in {"L37", "L67"} /\ sys' # sys /\ sys' # <<>>

\* C7: makeDir on a path that exists creates nothing and leaves the path
\* as it is, and it returns unless Stat itself fails; the second call of a
\* run finds the directory the first call left.
C7_MakeDirIdempotent ==
    [][MakeDirStep =>
         /\ pc = "L67" => dirState = "dir"
         /\ dirState # "absent" =>
              /\ dirState' = dirState
              /\ \A i \in 1..Len(sys') : sys'[i].call # "mkdir"
              /\ sys'[1] = Call("stat", "nil") =>
                   (status' = "running" /\ pc' = IF pc = "L37" THEN "L38" ELSE "L68")]_vars

\* C7 witness: the second makeDir of the run has returned.
C7_Witness ==
    /\ pc = "L68" /\ status = "running"
    /\ sys = <<Call("stat", "nil")>>
    /\ log = <<"makeDir", "create:locals.tf", "build:locals.tf", "write:locals.tf", "makeDir">>

ActualOrder ==
    <<"makeDir", "create:locals.tf", "build:locals.tf", "write:locals.tf",
      "makeDir", "create:main.tf", "build:main.tf", "write:main.tf", "exit">>

Position(e) == CHOOSE i \in 1..Len(log) : log[i] = e
Before(a, b) == InLog(b) => (InLog(a) /\ Position(a) < Position(b))

\* C8 as claimed: in a run without faults the directory is ensured, then the
\* locals document built, then written, then the resource document built,
\* then written, then the process exits, and no file is created or
\* truncated before its document has been built.
C8_ClaimedOrder ==
    FaultFree =>
        /\ Before("makeDir", "build:locals.tf")
        /\ Before("build:locals.tf", "write:locals.tf")
        /\ Before("write:locals.tf", "build:main.tf")
        /\ Before("build:main.tf", "write:main.tf")
        /\ Before("write:main.tf", "exit")
        /\ Before("build:locals.tf", "create:locals.tf")
        /\ Before("build:main.tf", "create:main.tf")

\* C8 amended: in a run without faults the steps are, in this order,
\* makeDir, create locals.tf, build the locals document, write it, makeDir,
\* create main.tf, build the resource document, write it, exit: each file is
\* created (truncated) before its document is built.
C8_ActualOrder ==
    /\ (~InLog("write-failed:locals.tf") /\ ~InLog("write-failed:main.tf"))
          => IsPrefix(log, ActualOrder)
    /\ (status = "exit0" /\ FaultFree) => log = ActualOrder

\* C8 witness: a run without faults has exited.
C8_Witness == status = "exit0" /\ FaultFree /\ Len(log) = 9

ExprText(body, i) == Concat(body[i].expr)
Names(body) == [i \in 1..Len(body) |-> <<body[i].kind, body[i].name>>]

\* C9: the document of createTerraformMain is one resource block, labelled
\* "ibm_container_ingress_secret_opaque" "ingress-secret", holding for_each =
\* local.secrets, cluster, secret_name = each.key, secret_namespace and one
\* block dynamic "fields" with for_each = local.secrets[each.key].fields and
\* one block content with field_name = fields.key and crn = fields.value.
C9_ResourceDocument ==
    pc = "L104" =>
        /\ Len(hclFile) = 1
        /\ hclFile[1].kind = "block" /\ hclFile[1].name = "resource"
        /\ hclFile[1].labels = <<"ibm_container_ingress_secret_opaque", "ingress-secret">>
        /\ LET res == hclFile[1].body
           IN /\ Names(res) = << <<"attr", "for_each">>, <<"attr", "cluster">>,
                                 <<"attr", "secret_name">>, <<"attr", "secret_namespace">>,
                                 <<"block", "dynamic">> >>
              /\ ExprText(res, 1) = "local.secrets"
              /\ ExprText(res, 3) = "each.key"
              /\ res[5].labels = <<"fields">>
              /\ LET dyn == res[5].body
                 IN /\ Names(dyn) = << <<"attr", "for_each">>, <<"block", "content">> >>
                    /\ ExprText(dyn, 1) = "local.secrets[each.key].fields"
                    /\ dyn[2].labels = <<>>
                    /\ Names(dyn[2].body) = << <<"attr", "field_name">>, <<"attr", "crn">> >>
                    /\ ExprText(dyn[2].body, 1) = "fields.key"
                    /\ ExprText(dyn[2].body, 2) = "fields.value"
        /\ SubSeq(Bytes(hclFile), 1, 9) =
              <<"resource", "\"", "ibm_container_ingress_secret_opaque", "\"",
                "\"", "ingress-secret", "\"", "{", NL>>

\* C9 witness: the resource document is built and about to be written.
C9_Witness ==
    /\ pc = "L104" /\ tfFile = tfMainFileName
    /\ Len(hclFile) = 1 /\ Len(hclFile[1].body) = 5

\* C10: the references of the resource document resolve in the locals
\* document of the same run: the locals block has the attribute secrets,
\* bound to a mapping with the entries secret-0 .. secret-4, and each entry
\* has an attribute fields that is a non-empty mapping.
C10_ReferencesResolve ==
    pc = "L62" =>
        LET res == MainDocument(environ)[1].body
            loc == hclFile[1]
        IN /\ ExprText(res, 1) = "local.secrets"
           /\ ExprText(res[5].body, 1) = "local.secrets[each.key].fields"
           /\ Len(hclFile) = 1 /\ loc.kind = "block" /\ loc.name = "locals"
           /\ Names(loc.body) = << <<"attr", "secrets">> >>
           /\ loc.body[1].expr = TokensForValue(ObjectVal(secretsMap))
           /\ DOMAIN secretsMap = {"secret-0", "secret-1", "secret-2", "secret-3", "secret-4"}
           /\ \A k \in DOMAIN secretsMap :
                 /\ secretsMap[k].t = "object"
                 /\ DOMAIN secretsMap[k].attrs = {"fields"}
                 /\ secretsMap[k].attrs["fields"].t = "object"
                 /\ DOMAIN FieldsOf(secretsMap[k]) # {}
           /\ \A i \in 0..4 :
                 \E j \in 1..Len(loc.body[1].expr) :
                    /\ j + 4 <= Len(loc.body[1].expr)
                    /\ SubSeq(loc.body[1].expr, j, j + 4)
                          = <<"secret-" \o ToString(i), "=", "{", NL, "fields">>

\* C10 witness: the locals document is built, with an entry of two fields.
C10_Witness ==
    /\ pc = "L62"
    /\ \E k \in DOMAIN secretsMap : Cardinality(DOMAIN FieldsOf(secretsMap[k])) = 2
    /\ \E k \in DOMAIN secretsMap : Cardinality(DOMAIN FieldsOf(secretsMap[k])) = 1

=============================================================================
